---- MODULE Spec2Model ----
(***************************************************************************)
(* Marketing campaign scheduler of CMS-GB (src/lib/marketing.js, kept in   *)
(* src/src/lib/extract.js): campaigns and their steps, enrollments, the    *)
(* send log, suppressions, the key/value configuration with the hourly     *)
(* rate bucket, and the tick engine marketingTick with the HTTP handlers   *)
(* that drive it.                                                          *)
(*                                                                         *)
(* Time is the wall clock in minutes since an epoch that is a UTC          *)
(* midnight.  An ISO timestamp is modelled by its minute count: ISO        *)
(* strings of one format compare as the instants they denote.  JavaScript  *)
(* runs a handler without interruption between two awaits; the wall clock  *)
(* is taken as constant over such a synchronous block and may advance      *)
(* while a tick is suspended in its await of the email transport and       *)
(* between handlers.                                                       *)
(***************************************************************************)
EXTENDS Integers, Sequences, FiniteSets, TLC

(***************************************************************************)
(* Bounds of the model.                                                    *)
(***************************************************************************)
MaxHours == 1         \* clock advances in one behaviour
MaxEnrolls == 2       \* calls of enrollContacts in one behaviour
MaxHooks == 1         \* deliveries of the webhook in one behaviour
MaxTicks == 2         \* marketingTick invocations in one behaviour
MaxRate == 2          \* largest configured rate_per_hour
MaxBatch == 2         \* largest batch handed to marketingTick
MaxCalls == 2         \* the per-step transport call counter saturates here

(***************************************************************************)
(* Calendar arithmetic of the JavaScript Date object.                      *)
(***************************************************************************)
MinutesPerHour == 60
HoursPerDay == 24
MinutesPerDay == MinutesPerHour * HoursPerDay

NULL == -1            \* SQL NULL / JavaScript null in a timestamp or id column
NaN == 0 - 1000000    \* stands for NaN: no number of the model is this small

Contacts == {"c1", "c2"}
Campaigns == {"k1"}
Ticks == {"t1", "t2"}             \* HTTP requests that may run marketingTick
TzOffsets == {330}                \* local time minus UTC, in minutes
ClockSteps == {60}                \* amounts by which the clock advances

Min2(a, b) == IF a <= b THEN a ELSE b

\* now.getUTCHours() with the date: the index of the UTC hour, which is what
\* the bucket string `${year}-${month}-${date}-${hours}` identifies
UtcHourBucket(t) == t \div MinutesPerHour

\* now.getHours(): the hour of the day in local time
LocalHour(t, tzo) == ((t + tzo) \div MinutesPerHour) % HoursPerDay

\* d.setMinutes(d.getMinutes() + m)
AddMinutes(t, m) == t + m

\* faulty variant: tomorrow's date and the start hour are taken in UTC
TomorrowAtUtc(t, startH, tzo) ==
    ((t \div MinutesPerDay) + 1) * MinutesPerDay + startH * MinutesPerHour

\* tomorrow.setDate(tomorrow.getDate() + 1); tomorrow.setHours(startH, 0, 0, 0)
\* in local time, converted back to the instant
TomorrowAt(t, startH, tzo) ==
    (((t + tzo) \div MinutesPerDay) + 1) * MinutesPerDay + startH * MinutesPerHour - tzo

(***************************************************************************)
(* Configuration values are strings; Number(value) reads them.             *)
(***************************************************************************)
NumTable ==
    [v \in {"0", "1", "2", "3", "00", "06", "09", "18", "22", "24", "200"} |->
        CASE v = "0" -> 0 [] v = "1" -> 1 [] v = "2" -> 2 [] v = "3" -> 3
          [] v = "00" -> 0 [] v = "06" -> 6 [] v = "09" -> 9 [] v = "18" -> 18
          [] v = "22" -> 22 [] v = "24" -> 24 [] v = "200" -> 200]

\* a string that is not a number reads as NaN
Num(v) == IF v \in DOMAIN NumTable THEN NumTable[v] ELSE NaN

\* a > b, which is false when an operand is NaN
Greater(a, b) == a # NaN /\ b # NaN /\ a > b

QuietConfigs == {<<"09", "18">>, <<"22", "06">>}
RateValues == {"1", "2", "3"}
RateConfigs == {v \in RateValues : Num(v) <= MaxRate}

(***************************************************************************)
(* withinQuietHours(now, startHour, endHour)                               *)
(***************************************************************************)
\* faulty variant: the end hour is taken as part of the window
withinHoursInclusive(h, s, e) ==
    IF s = NaN \/ e = NaN THEN TRUE
    ELSE IF s <= e THEN h >= s /\ h <= e
                   ELSE h >= s \/ h <= e

\* the three tests on h = now.getHours(), s = Number(startHour), e = Number(endHour)
withinHours(h, s, e) ==
    IF s = NaN \/ e = NaN THEN TRUE
    ELSE IF s <= e THEN h >= s /\ h < e
                   ELSE h >= s \/ h < e

withinQuietHours(h, startHour, endHour) == withinHours(h, Num(startHour), Num(endHour))

VARIABLES
    now,           \* the wall clock
    tz,            \* the server's local time zone offset
    config,        \* marketing_config
    steps,         \* marketing_campaign_steps
    enrollments,   \* marketing_enrollments, in rowid order
    sends,         \* marketing_sends, in insertion order
    suppressions,  \* contact ids with a row in marketing_suppressions
    mailer,        \* _sendEmail: whether the module found a mailer to plug in
    tick,          \* per request: the locals of its marketingTick invocation
    calls,         \* history: transport calls made per (campaign, contact, step)
    hist,          \* history: tick count and rate limiter bookkeeping
    fn             \* a function applied on its own: its name, arguments and result

vars == <<now, tz, config, steps, enrollments, sends, suppressions, mailer, tick, calls, hist, fn>>

(***************************************************************************)
(* Rows and row lookups.                                                   *)
(***************************************************************************)
StepOrders == 1..3

CallKeys == Campaigns \X Contacts \X StepOrders

\* stepQuery: SELECT * FROM marketing_campaign_steps
\*            WHERE campaign_id = ? AND step_order = ?
stepQuery(campaignId, stepOrder) ==
    {s \in steps : s.campaign_id = campaignId /\ s.step_order = stepOrder}

StepRow(campaignId, stepOrder) == CHOOSE s \in stepQuery(campaignId, stepOrder) : TRUE

\* stepQuery.get(e.campaign_id, e.next_step_order + 1) finds a row
Advances(e) == stepQuery(e.campaign_id, e.next_step_order + 1) # {}

\* suppressed: SELECT 1 FROM marketing_suppressions WHERE contact_id = ? LIMIT 1
suppressedNever(contactId) == FALSE

suppressed(contactId) == contactId \in suppressions

\* the defaults ensureMarketingSchema writes for keys without a value
ensureMarketingSchema(cfg) ==
    [cfg EXCEPT !.quiet_start = IF @ = "" THEN "09" ELSE @,
                !.quiet_end = IF @ = "" THEN "18" ELSE @,
                !.rate_per_hour = IF @ = "" THEN "200" ELSE @]

\* updEnroll: UPDATE marketing_enrollments
\*            SET next_step_order = ?, next_run_at = ?, last_sent_at = ? WHERE id = ?
updEnroll(rows, id, nextStepOrder, nextRunAt, lastSentAt) ==
    [rows EXCEPT ![id].next_step_order = nextStepOrder,
                 ![id].next_run_at = nextRunAt,
                 ![id].last_sent_at = lastSentAt]

\* faulty variant: the UPDATE matches no row
markDoneNoRow(rows, id) == rows

\* markDone: UPDATE marketing_enrollments SET status = 'completed' WHERE id = ?
markDone(rows, id) == [rows EXCEPT ![id].status = "completed"]

\* faulty variant: the suppressed contact's next step is due at once, its delay forgotten
advanceSuppressedNoDelay(rows, e) ==
    LET nextStep == e.next_step_order + 1
    IN  IF stepQuery(e.campaign_id, nextStep) # {}
        THEN updEnroll(rows, e.id, nextStep, now, NULL)
        ELSE markDone(rows, e.id)

\* lines 410-419: a suppressed contact is moved to the step with step_order
\* exactly one more, due its delay_minutes after the current instant, with
\* last_sent_at written as null; without such a step the enrollment completes
advanceSuppressed(rows, e) ==
    LET nextStep == e.next_step_order + 1
    IN  IF stepQuery(e.campaign_id, nextStep) # {}
        THEN updEnroll(rows, e.id, nextStep,
                       AddMinutes(now, StepRow(e.campaign_id, nextStep).delay_minutes),
                       NULL)
        ELSE markDone(rows, e.id)

\* faulty variant: the enrollment is written back with the step it already had
advanceSentSameStep(rows, e, nowISO) ==
    updEnroll(rows, e.id, e.next_step_order, now, nowISO)

\* faulty variant: the delay of the step just sent is used for the next one
advanceSentOwnDelay(rows, e, nowISO) ==
    LET nextStepOrder == e.next_step_order + 1
    IN  IF stepQuery(e.campaign_id, nextStepOrder) # {}
        THEN updEnroll(rows, e.id, nextStepOrder,
                       AddMinutes(now, StepRow(e.campaign_id, e.next_step_order).delay_minutes),
                       nowISO)
        ELSE markDone(rows, e.id)

\* faulty variant: the step after order k is the next one that exists
advanceSentNextExisting(rows, e, nowISO) ==
    LET later == {x \in steps : x.campaign_id = e.campaign_id /\ x.step_order > e.next_step_order}
    IN  IF later # {}
        THEN LET stepNext == CHOOSE x \in later : \A y \in later : x.step_order <= y.step_order
             IN  updEnroll(rows, e.id, stepNext.step_order,
                           AddMinutes(now, stepNext.delay_minutes), nowISO)
        ELSE markDone(rows, e.id)

\* lines 479-489: after the send is logged the enrollment moves to the step
\* with step_order exactly one more, or completes
advanceSent(rows, e, nowISO) ==
    LET nextStepOrder == e.next_step_order + 1
    IN  IF stepQuery(e.campaign_id, nextStepOrder) # {}
        THEN updEnroll(rows, e.id, nextStepOrder,
                       AddMinutes(now, StepRow(e.campaign_id, nextStepOrder).delay_minutes),
                       nowISO)
        ELSE markDone(rows, e.id)

\* lines 432-436: a deferred enrollment keeps its step and last_sent_at and is
\* due again tomorrow at quiet_start o'clock local time
deferQuiet(rows, e, quietStart) ==
    updEnroll(rows, e.id, e.next_step_order,
              TomorrowAt(now, Num(quietStart), tz), e.last_sent_at)

(***************************************************************************)
(* Initial state: empty tables, the configuration as the operator set it.  *)
(***************************************************************************)
\* the outcome of a tick's latest transport call, before any and after a throw
NoResult == [ok |-> FALSE, hasId |-> FALSE, provider |-> "", status |-> "none"]
Thrown == [ok |-> FALSE, hasId |-> FALSE, provider |-> "", status |-> "thrown"]

IdleTick ==
    [pc |-> "idle", now |-> 0, isOkWindow |-> FALSE, quietStart |-> "",
     allowed |-> 0, curCount |-> 0, due |-> <<>>, i |-> 0,
     processed |-> 0, sent |-> 0, queued |-> 0, skippedQuiet |-> 0,
     suppressedCount |-> 0, completed |-> 0, result |-> NoResult,
     missing |-> 0,    \* history: rows completed because their step is missing
     supp |-> {}]      \* history: the contacts suppressed when the tick started

StartTimes == {1020}

\* no function is applied on its own
NoCall == [name |-> "none"]

\* the tables and the environment, the stored configuration drawn from the given values
InitTables(quiets, rates, mailers) ==
    /\ now \in StartTimes
    /\ tz \in TzOffsets
    /\ \E q \in quiets, r \in rates :
          config = [quiet_start |-> q[1], quiet_end |-> q[2], rate_per_hour |-> r,
                    rate_bucket |-> NULL, rate_count |-> 0]
    /\ steps = {}
    /\ enrollments = <<>>
    /\ sends = <<>>
    /\ suppressions = {}
    /\ mailer \in mailers
    /\ tick = [p \in Ticks |-> IdleTick]
    /\ calls = [k \in CallKeys |-> 0]
    /\ hist = [ticks |-> 0, hours |-> 0, hooks |-> 0, enrolls |-> 0, takeHour |-> NULL, takeOk |-> 0, takeWrong |-> FALSE,
               spanned |-> FALSE, reenrolled |-> FALSE]

InitWith(quiets) ==
    /\ InitTables(quiets, RateConfigs, BOOLEAN)
    /\ fn = NoCall

Init == InitWith(QuietConfigs)

\* stored configurations with a key missing ("") or holding text that is not a number
BadQuietConfigs == {<<"", "">>, <<"zz", "18">>, <<"09", "zz">>}
BadRateConfigs == {"", "abc", "1"}

\* stored configurations among which quiet_start = quiet_end
EqualQuietConfigs == {<<"09", "09">>, <<"22", "06">>}

InitEqualQuiet ==
    /\ InitTables(EqualQuietConfigs, {"1"}, {TRUE})
    /\ fn = NoCall

InitBadConfig ==
    /\ InitTables(BadQuietConfigs, BadRateConfigs, {TRUE})
    /\ fn = NoCall

\* a tick is inside a synchronous block: nothing else runs until it awaits or ends
InSync == \E p \in Ticks : tick[p].pc = "loop"

(***************************************************************************)
(* The wall clock.                                                         *)
(***************************************************************************)
ClockAdvance ==
    /\ ~InSync
    /\ hist.hours < MaxHours
    /\ \E d \in ClockSteps : now' = now + d
    /\ hist' = [hist EXCEPT !.hours = @ + 1]
    /\ UNCHANGED <<tz, config, steps, enrollments, sends, suppressions, mailer, tick, calls, fn>>

(***************************************************************************)
(* createCampaign({ name, steps })                                         *)
(***************************************************************************)
NoOrder == 0    \* a step given without step_order

CampaignInputs ==
    { << [step_order |-> NoOrder, delay_minutes |-> 0],
         [step_order |-> NoOrder, delay_minutes |-> 60] >>,
      << [step_order |-> NoOrder, delay_minutes |-> 60],
         [step_order |-> NoOrder, delay_minutes |-> 0],
         [step_order |-> NoOrder, delay_minutes |-> 60] >>,
      << [step_order |-> 1, delay_minutes |-> 0],
         [step_order |-> 3, delay_minutes |-> 60] >> }

createCampaign ==
    /\ ~InSync
    /\ \E k \in Campaigns, input \in CampaignInputs :
          /\ \A s \in steps : s.campaign_id # k
          /\ steps' = steps \cup
                { [campaign_id |-> k,
                   step_order |-> IF input[i].step_order # NoOrder
                                  THEN input[i].step_order ELSE i,
                   delay_minutes |-> input[i].delay_minutes] : i \in DOMAIN input }
    /\ config' = ensureMarketingSchema(config)
    /\ UNCHANGED <<now, tz, enrollments, sends, suppressions, mailer, tick, calls, hist, fn>>

(***************************************************************************)
(* enrollContacts({ campaignId, contactIds, startAtISO })                  *)
(***************************************************************************)
SetMin(S) == CHOOSE x \in S : \A y \in S : x <= y

\* faulty variant: a plain INSERT without the UNIQUE constraint
InsertAlways(rows, row) == Append(rows, row)

\* faulty variant: INSERT OR REPLACE, the new row takes the place of the old one
InsertOrReplace(rows, row) ==
    IF \E i \in DOMAIN rows : /\ rows[i].campaign_id = row.campaign_id
                              /\ rows[i].contact_id = row.contact_id
    THEN [i \in DOMAIN rows |->
             IF rows[i].campaign_id = row.campaign_id /\ rows[i].contact_id = row.contact_id
             THEN row ELSE rows[i]]
    ELSE Append(rows, row)

\* INSERT OR IGNORE under UNIQUE(campaign_id, contact_id)
InsertOrIgnore(rows, row) ==
    IF \E i \in DOMAIN rows : /\ rows[i].campaign_id = row.campaign_id
                              /\ rows[i].contact_id = row.contact_id
    THEN rows
    ELSE Append(rows, row)

RECURSIVE InsertAll(_, _, _, _, _)
InsertAll(rows, campaignId, contactIds, nextRun, v) ==
    IF contactIds = <<>> THEN rows
    ELSE InsertAll(InsertOrIgnore(rows,
                       [campaign_id |-> campaignId, contact_id |-> Head(contactIds),
                        status |-> "active", next_step_order |-> 1,
                        next_run_at |-> nextRun, last_sent_at |-> NULL,
                        data_json |-> v]),
                   campaignId, Tail(contactIds), nextRun, v)

\* SELECT COALESCE(MIN(delay_minutes), 0) FROM marketing_campaign_steps WHERE campaign_id = ?
firstDelay(campaignId) ==
    LET ds == {s.delay_minutes : s \in {x \in steps : x.campaign_id = campaignId}}
    IN  IF ds = {} THEN 0 ELSE SetMin(ds)

\* history: the call names a contact whose enrollment in the campaign is completed
ReEnrolls(campaignId, contactIds) ==
    \E i \in DOMAIN enrollments, j \in DOMAIN contactIds :
        /\ enrollments[i].campaign_id = campaignId
        /\ enrollments[i].contact_id = contactIds[j]
        /\ enrollments[i].status = "completed"

ContactIdLists == {<<"c1">>, <<"c1", "c2", "c1">>}
StartAts == {NULL, 1080}

enrollContacts ==
    /\ ~InSync
    /\ hist.enrolls < MaxEnrolls
    /\ \E campaignId \in Campaigns, contactIds \in ContactIdLists, startAtISO \in StartAts :
          LET startBase == IF startAtISO # NULL THEN startAtISO ELSE now
              nextRun == AddMinutes(startBase, firstDelay(campaignId))
              \* varsByContact: each call brings its own snapshot of the variables
              v == hist.enrolls + 1
          IN  /\ enrollments' = InsertAll(enrollments, campaignId, contactIds, nextRun, v)
              /\ hist' = [hist EXCEPT
                            !.enrolls = @ + 1,
                            !.reenrolled = @ \/ ReEnrolls(campaignId, contactIds)]
    /\ config' = ensureMarketingSchema(config)
    /\ UNCHANGED <<now, tz, steps, sends, suppressions, mailer, tick, calls, fn>>

(***************************************************************************)
(* marketingTick({ batch }): from the call to the first await or return.   *)
(***************************************************************************)
\* faulty variant: the selection forgets the next_run_at filter
DueIdsAnyTime(rows, t) == {i \in DOMAIN rows : rows[i].status = "active"}

\* faulty variant: the selection forgets the status filter
DueIdsAnyStatus(rows, t) == {i \in DOMAIN rows : rows[i].next_run_at <= t}

\* ids of the rows with status = 'active' AND next_run_at <= now
DueIds(rows, t) == {i \in DOMAIN rows : rows[i].status = "active" /\ rows[i].next_run_at <= t}

\* faulty variant: the rows come back in any order
AnyOrderings(rows, S) ==
    {f \in [1..Cardinality(S) -> S] : \A i, j \in DOMAIN f : i # j => f[i] # f[j]}

\* the orders ORDER BY next_run_at ASC may return the rows in (ties in any order)
SortedOrderings(rows, S) ==
    {f \in [1..Cardinality(S) -> S] :
        /\ \A i, j \in DOMAIN f : i # j => f[i] # f[j]
        /\ \A i, j \in DOMAIN f : i < j => rows[f[i]].next_run_at <= rows[f[j]].next_run_at}

\* the row as the tick holds it in `e` from the selection on
Snapshot(rows, id) ==
    [id |-> id, campaign_id |-> rows[id].campaign_id, contact_id |-> rows[id].contact_id,
     next_step_order |-> rows[id].next_step_order, next_run_at |-> rows[id].next_run_at,
     last_sent_at |-> rows[id].last_sent_at]

\* ... ORDER BY e.next_run_at ASC LIMIT batch
DueBatches(rows, t, batch) ==
    {[j \in 1..Min2(batch, Len(f)) |-> Snapshot(rows, f[j])] :
        f \in SortedOrderings(rows, DueIds(rows, t))}

\* rateLimiterState(d): the bucket of the current UTC hour is compared with the
\* stored one once, here; the count is reset when they differ
LimiterReset(cfg) == cfg.rate_bucket # UtcHourBucket(now)

rateLimiterState(cfg) ==
    IF LimiterReset(cfg)
    THEN [cfg EXCEPT !.rate_bucket = UtcHourBucket(now), !.rate_count = 0]
    ELSE cfg

marketingTick(p) ==
    /\ ~InSync
    /\ tick[p].pc \in {"idle", "done", "failed"}
    /\ \E batch \in 1..MaxBatch :
          LET cfg == rateLimiterState(ensureMarketingSchema(config))
          IN  /\ config' = cfg
              /\ \E due \in DueBatches(enrollments, now, batch) :
                    tick' = [tick EXCEPT ![p] =
                        [IdleTick EXCEPT
                            !.pc = IF due = <<>> THEN "done" ELSE "loop",
                            !.now = now,
                            !.isOkWindow = withinQuietHours(LocalHour(now, tz),
                                               cfg.quiet_start, cfg.quiet_end),
                            !.quietStart = cfg.quiet_start,
                            !.allowed = Num(cfg.rate_per_hour),
                            !.curCount = cfg.rate_count,
                            !.due = due,
                            !.i = 1,
                            !.supp = suppressions]]
    /\ hist' = [hist EXCEPT !.ticks = Min2(@ + 1, MaxTicks)]
    /\ UNCHANGED <<now, tz, steps, enrollments, sends, suppressions, mailer, calls, fn>>

\* GET of the tick route, one of the MaxTicks requests of a bounded behaviour
TickBegin(p) == hist.ticks < MaxTicks /\ marketingTick(p)

(***************************************************************************)
(* One iteration of `for (const e of due)`, by the branch it takes.        *)
(***************************************************************************)
InLoop(p) == tick[p].pc = "loop"

\* where the tick is after the iteration on due[i]: at the next row, or past
\* the loop at `return { processed, ... }`
AfterRow(t) == IF t.i + 1 > Len(t.due) THEN "done" ELSE "loop"

Cur(p) == tick[p].due[tick[p].i]

IsSuppressedCase(p) == InLoop(p) /\ suppressed(Cur(p).contact_id)

IsMissingCase(p) ==
    /\ InLoop(p)
    /\ ~suppressed(Cur(p).contact_id)
    /\ stepQuery(Cur(p).campaign_id, Cur(p).next_step_order) = {}

IsQuietCase(p) ==
    /\ InLoop(p)
    /\ ~suppressed(Cur(p).contact_id)
    /\ stepQuery(Cur(p).campaign_id, Cur(p).next_step_order) # {}
    /\ ~tick[p].isOkWindow

IsRateCase(p) ==
    /\ InLoop(p)
    /\ ~suppressed(Cur(p).contact_id)
    /\ stepQuery(Cur(p).campaign_id, Cur(p).next_step_order) # {}
    /\ tick[p].isOkWindow

\* take(n = 1): if (curCount + n > allowed) return false
takeOk(t) == ~Greater(t.curCount + 1, t.allowed)

\* history of the take made now: the successful takes made earlier in this UTC hour
PriorTakes == IF hist.takeHour = UtcHourBucket(now) THEN hist.takeOk ELSE 0

RecordTake(p, ok) ==
    [hist EXCEPT !.takeHour = UtcHourBucket(now),
                 !.takeOk = PriorTakes + (IF ok THEN 1 ELSE 0),
                 !.takeWrong = @ \/ (ok # (PriorTakes < tick[p].allowed)),
                 !.spanned = @ \/ UtcHourBucket(now) # UtcHourBucket(tick[p].now)]

StepSuppressed(p) ==
    /\ IsSuppressedCase(p)
    /\ enrollments' = advanceSuppressed(enrollments, Cur(p))
    /\ tick' = [tick EXCEPT ![p].processed = @ + 1,
                            ![p].suppressedCount = @ + 1,
                            ![p].completed = IF Advances(Cur(p)) THEN @ ELSE @ + 1,
                            ![p].pc = AfterRow(tick[p]),
                            ![p].i = @ + 1]
    /\ UNCHANGED <<now, tz, config, steps, sends, suppressions, mailer, calls, hist, fn>>

StepMissing(p) ==
    /\ IsMissingCase(p)
    /\ enrollments' = markDone(enrollments, Cur(p).id)
    /\ tick' = [tick EXCEPT ![p].processed = @ + 1,
                            ![p].completed = @ + 1,
                            ![p].missing = @ + 1,
                            ![p].pc = AfterRow(tick[p]),
                            ![p].i = @ + 1]
    /\ UNCHANGED <<now, tz, config, steps, sends, suppressions, mailer, calls, hist, fn>>

StepQuiet(p) ==
    /\ IsQuietCase(p)
    /\ enrollments' = deferQuiet(enrollments, Cur(p), tick[p].quietStart)
    /\ tick' = [tick EXCEPT ![p].processed = @ + 1,
                            ![p].skippedQuiet = @ + 1,
                            ![p].pc = AfterRow(tick[p]),
                            ![p].i = @ + 1]
    /\ UNCHANGED <<now, tz, config, steps, sends, suppressions, mailer, calls, hist, fn>>

\* faulty variant: `continue` in place of `break`
StepRateContinue(p) ==
    /\ IsRateCase(p)
    /\ ~takeOk(tick[p])
    /\ tick' = [tick EXCEPT ![p].processed = @ + 1,
                            ![p].pc = AfterRow(tick[p]),
                            ![p].i = @ + 1]
    /\ hist' = RecordTake(p, FALSE)
    /\ UNCHANGED <<now, tz, config, steps, enrollments, sends, suppressions, mailer, calls, fn>>

\* if (!limiter.take(1)) break
StepRateBreak(p) ==
    /\ IsRateCase(p)
    /\ ~takeOk(tick[p])
    /\ tick' = [tick EXCEPT ![p].processed = @ + 1, ![p].pc = "done"]
    /\ hist' = RecordTake(p, FALSE)
    /\ UNCHANGED <<now, tz, config, steps, enrollments, sends, suppressions, mailer, calls, fn>>

\* take(1) succeeds and persists the count; the content is composed and the
\* transport is called: the tick is suspended in `await sendEmailAdapter(...)`
StepSend(p) ==
    /\ IsRateCase(p)
    /\ takeOk(tick[p])
    /\ config' = [config EXCEPT !.rate_count = tick[p].curCount + 1]
    /\ tick' = [tick EXCEPT ![p].processed = @ + 1,
                            ![p].curCount = @ + 1,
                            ![p].pc = "await"]
    /\ calls' = [calls EXCEPT
                    ![<<Cur(p).campaign_id, Cur(p).contact_id, Cur(p).next_step_order>>] =
                        Min2(@ + 1, MaxCalls)]
    /\ hist' = RecordTake(p, TRUE)
    /\ UNCHANGED <<now, tz, steps, enrollments, sends, suppressions, mailer, fn>>

(***************************************************************************)
(* The email transport answers, and the tick resumes after its await.      *)
(***************************************************************************)
NoStatus == ""

\* what a plugged-in mailer's promise may resolve to
MailerResults ==
    { [ok |-> TRUE,  hasId |-> TRUE,  provider |-> "resend", status |-> NoStatus],
      [ok |-> FALSE, hasId |-> FALSE, provider |-> "resend", status |-> NoStatus],
      [ok |-> FALSE, hasId |-> FALSE, provider |-> "resend", status |-> "failed"] }

\* sendEmailAdapter: the mailer's answer, or without a mailer the fallback
\* "pretend we queued it"
sendEmailAdapter ==
    IF mailer THEN MailerResults
    ELSE { [ok |-> FALSE, hasId |-> FALSE, provider |-> "mock", status |-> "queued"] }

\* const status = result?.status || (result?.ok ? "sent" : "queued")
sendStatus(result) ==
    IF result.status # NoStatus THEN result.status
    ELSE IF result.ok THEN "sent" ELSE "queued"

\* insSend.run(...): the row appended to marketing_sends
sendRow(e, result, nowISO, providerId) ==
    [contact_id |-> e.contact_id, campaign_id |-> e.campaign_id,
     step_order |-> e.next_step_order, provider |-> result.provider,
     provider_id |-> IF result.hasId THEN providerId ELSE NULL,
     status |-> sendStatus(result), sent_at |-> nowISO]

SendReturn(p) ==
    /\ ~InSync
    /\ tick[p].pc = "await"
    /\ \E result \in sendEmailAdapter :
          /\ sends' = Append(sends, sendRow(Cur(p), result, tick[p].now, Len(sends) + 1))
          /\ tick' = [tick EXCEPT
                        ![p].sent = IF sendStatus(result) = "sent" THEN @ + 1 ELSE @,
                        ![p].queued = IF sendStatus(result) = "sent" THEN @ ELSE @ + 1,
                        ![p].completed = IF Advances(Cur(p)) THEN @ ELSE @ + 1,
                        ![p].i = @ + 1,
                        ![p].pc = AfterRow(tick[p]),
                        ![p].result = result]
    /\ enrollments' = advanceSent(enrollments, Cur(p), tick[p].now)
    /\ UNCHANGED <<now, tz, config, steps, suppressions, mailer, calls, hist, fn>>

\* the transport's promise rejects: marketingTick has no try/catch, the
\* exception leaves the loop and the function
SendThrow(p) ==
    /\ ~InSync
    /\ mailer
    /\ tick[p].pc = "await"
    /\ tick' = [tick EXCEPT ![p].pc = "failed", ![p].result = Thrown]
    /\ UNCHANGED <<now, tz, config, steps, enrollments, sends, suppressions, mailer, calls, hist, fn>>

(***************************************************************************)
(* POST of the delivery webhook.                                           *)
(***************************************************************************)
statusMap ==
    [type \in {"email.sent", "email.delivered", "email.opened", "email.clicked",
               "email.bounced", "email.complained"} |->
        CASE type = "email.sent" -> "sent"
          [] type = "email.delivered" -> "delivered"
          [] type = "email.opened" -> "opened"
          [] type = "email.clicked" -> "clicked"
          [] type = "email.bounced" -> "bounced"
          [] type = "email.complained" -> "complained"]

WebhookTypes == {"email.delivered", "email.bounced", "email.complained", "email.other"}

\* rows WHERE provider = 'resend' AND provider_id = ?
ResendRows(id) == {i \in DOMAIN sends : sends[i].provider = "resend" /\ sends[i].provider_id = id}

Webhook ==
    /\ ~InSync
    /\ hist.hooks < MaxHooks
    /\ \E type \in WebhookTypes, id \in 1..(Len(sends) + 1) :
          LET status == IF type \in DOMAIN statusMap THEN statusMap[type] ELSE ""
              hit == ResendRows(id)
          IN  IF status # ""
              THEN /\ sends' = [i \in DOMAIN sends |->
                                   IF i \in hit THEN [sends[i] EXCEPT !.status = status]
                                   ELSE sends[i]]
                   /\ suppressions' =
                         IF status \in {"bounced", "complained"} /\ hit # {}
                         THEN suppressions \cup {sends[SetMin(hit)].contact_id}
                         ELSE suppressions
              ELSE UNCHANGED <<sends, suppressions>>
    /\ hist' = [hist EXCEPT !.hooks = @ + 1]
    /\ UNCHANGED <<now, tz, config, steps, enrollments, mailer, tick, calls, fn>>

(***************************************************************************)
(* Specifications.  Spec: ticks never overlap (one request at a time runs  *)
(* marketingTick).  SpecOverlap: a second request may start a tick while   *)
(* the first is suspended in its await.                                    *)
(***************************************************************************)
TickRun(p) ==
    \/ StepSuppressed(p)
    \/ StepMissing(p)
    \/ StepQuiet(p)
    \/ StepRateBreak(p)
    \/ StepSend(p)
    \/ SendReturn(p)
    \/ SendThrow(p)

Next ==
    \/ ClockAdvance
    \/ createCampaign
    \/ enrollContacts
    \/ Webhook
    \/ TickBegin("t1")
    \/ TickRun("t1")

Spec == Init /\ [][Next]_vars

\* the second request arrives while the first is suspended in its await
TickBeginOverlap == tick["t1"].pc = "await" /\ TickBegin("t2")

NextOverlap ==
    \/ ClockAdvance
    \/ createCampaign
    \/ enrollContacts
    \/ Webhook
    \/ TickBegin("t1")
    \/ TickBeginOverlap
    \/ \E p \in Ticks : TickRun(p)

\* the program started on a stored configuration that is missing or invalid
SpecBadConfig == InitBadConfig /\ [][Next]_vars

\* the program started on a configuration that may have quiet_start = quiet_end
SpecEqualQuiet == InitEqualQuiet /\ [][Next]_vars

SpecOverlap == Init /\ [][NextOverlap]_vars

(***************************************************************************)
(* SpecFair: the tick route is polled for ever by a cron and the clock     *)
(* never stops.  The clock advances by a day once the cron has started a   *)
(* tick at the current instant, so every instant of the clock sees a tick. *)
(* To keep the timestamps finite the epoch moves forward by a day when the *)
(* clock reaches the horizon: every stored timestamp is rewritten relative *)
(* to the new epoch, and one that lies before it becomes the epoch itself  *)
(* (it stays in the past of every later instant).  Fairness: time passes   *)
(* whatever the handlers do (strong fairness, as the clock step is only    *)
(* held back while a handler is inside a synchronous block); the cron      *)
(* keeps calling the route; a tick that was started runs on and the        *)
(* transport settles every call, by an answer or by an exception.          *)
(***************************************************************************)
FairStep == MinutesPerDay
Horizon == 2 * MinutesPerDay

AlwaysOpen == <<"00", "24">>     \* quiet_start, quiet_end: every hour is in the window

\* a mailer is plugged in; the window is the default one or always open
InitFair ==
    /\ InitWith({<<"09", "18">>, AlwaysOpen})
    /\ mailer
    /\ config.rate_per_hour = "1"

\* a timestamp, and an hour bucket, relative to the epoch one day later
Rebased(t) ==
    IF t = NULL THEN NULL
    ELSE IF t < MinutesPerDay THEN 0 ELSE t - MinutesPerDay

RebasedHour(h) ==
    IF h = NULL THEN NULL
    ELSE IF h < HoursPerDay THEN 0 ELSE h - HoursPerDay

RebasedRow(e) ==
    [e EXCEPT !.next_run_at = Rebased(@), !.last_sent_at = Rebased(@)]

\* the cron has started a tick at the current instant
Polled == tick["t1"].pc # "idle" /\ tick["t1"].now = now

\* the clock moves on by step once the cron has polled at the current instant
ClockBy(step) ==
    /\ ~InSync
    /\ Polled
    /\ IF now + step < Horizon
       THEN /\ now' = now + step
            /\ UNCHANGED <<config, enrollments, sends, tick, hist>>
       ELSE /\ now' = now + step - MinutesPerDay
            /\ config' = [config EXCEPT !.rate_bucket = RebasedHour(@)]
            /\ enrollments' = [i \in DOMAIN enrollments |-> RebasedRow(enrollments[i])]
            /\ sends' = [i \in DOMAIN sends |->
                            [sends[i] EXCEPT !.sent_at = Rebased(@)]]
            /\ tick' = [p \in Ticks |->
                          [tick[p] EXCEPT
                              !.now = Rebased(@),
                              !.due = [j \in DOMAIN tick[p].due |->
                                          RebasedRow(tick[p].due[j])]]]
            /\ hist' = [hist EXCEPT !.takeHour = RebasedHour(@)]
    /\ UNCHANGED <<tz, steps, suppressions, mailer, calls, fn>>

ClockFair == ClockBy(FairStep)

\* the campaign is set up and the contacts are enrolled before the cron is
\* switched on
CronOff == tick["t1"].pc = "idle"

\* the campaign has the two steps 1 and 2
createCampaignFirst ==
    /\ CronOff
    /\ createCampaign
    /\ \A k \in Campaigns : stepQuery(k, 2)' # {} /\ stepQuery(k, 3)' = {}

\* both contacts are enrolled by one call, without a startAtISO
enrollContactsFirst ==
    /\ CronOff
    /\ enrollments = <<>>
    /\ enrollContacts
    /\ Len(enrollments') = Cardinality(Contacts)
    /\ \A i \in DOMAIN enrollments' : enrollments'[i].next_run_at = now

\* the webhook reports a bounce or a complaint for a logged send
WebhookBounce == Webhook /\ suppressions' # suppressions

\* the mailer accepts a message, answering with its id, or throws
SendAccepted ==
    /\ SendReturn("t1")
    /\ sends'[Len(sends')].provider_id # NULL

TickRunFair ==
    \/ StepSuppressed("t1")
    \/ StepMissing("t1")
    \/ StepQuiet("t1")
    \/ StepRateBreak("t1")
    \/ StepSend("t1")
    \/ SendAccepted
    \/ SendThrow("t1")

NextFair ==
    \/ ClockFair
    \/ createCampaignFirst
    \/ enrollContactsFirst
    \/ WebhookBounce
    \/ marketingTick("t1")
    \/ TickRunFair

SpecFair ==
    /\ InitFair
    /\ [][NextFair]_vars
    /\ SF_vars(ClockFair)
    /\ WF_vars(marketingTick("t1"))
    /\ WF_vars(TickRunFair)

(***************************************************************************)
(* SpecLive: as SpecFair, with a transport that settles every call by an   *)
(* answer and a cron that polls at two instants of the day, twelve hours   *)
(* apart, one of which lies in the configured window.                      *)
(***************************************************************************)
LiveStep == MinutesPerDay \div 2

InitLive ==
    /\ InitWith(QuietConfigs)
    /\ mailer
    /\ config.rate_per_hour = "1"

ClockLive == ClockBy(LiveStep)

TickRunLive ==
    \/ StepSuppressed("t1")
    \/ StepMissing("t1")
    \/ StepQuiet("t1")
    \/ StepRateBreak("t1")
    \/ StepSend("t1")
    \/ SendReturn("t1")

NextLive ==
    \/ ClockLive
    \/ createCampaignFirst
    \/ enrollContactsFirst
    \/ WebhookBounce
    \/ marketingTick("t1")
    \/ TickRunLive

SpecLive ==
    /\ InitLive
    /\ [][NextLive]_vars
    /\ SF_vars(ClockLive)
    /\ WF_vars(marketingTick("t1"))
    /\ WF_vars(TickRunLive)

(***************************************************************************)
(* GET of the tick route: the batch size it hands to marketingTick.        *)
(***************************************************************************)
\* the characters of a query string value, and its longest length
QueryChars == {"-", "0", "2", "5", "9", "a"}
MaxQueryLen == 3
QueryValues == UNION {[1..n -> QueryChars] : n \in 0..MaxQueryLen}

DigitValue == [c \in {"0", "2", "5", "9"} |->
                  CASE c = "0" -> 0 [] c = "2" -> 2 [] c = "5" -> 5 [] c = "9" -> 9]

IsDigits(str) == str # <<>> /\ \A i \in DOMAIN str : str[i] \in DOMAIN DigitValue

RECURSIVE DecimalValue(_)
DecimalValue(str) ==
    IF str = <<>> THEN 0
    ELSE 10 * DecimalValue(SubSeq(str, 1, Len(str) - 1)) + DigitValue[str[Len(str)]]

\* Number(str) of a string of these characters: decimal digits with an
\* optional sign are a number, the empty string is 0, anything else is NaN
Number(str) ==
    IF str = <<>> THEN 0
    ELSE IF IsDigits(str) THEN DecimalValue(str)
    ELSE IF Head(str) = "-" /\ IsDigits(Tail(str)) THEN 0 - DecimalValue(Tail(str))
    ELSE NaN

\* Math.min and Math.max: NaN when an argument is NaN
MathMin(a, b) == IF a = NaN \/ b = NaN THEN NaN ELSE IF a <= b THEN a ELSE b
MathMax(a, b) == IF a = NaN \/ b = NaN THEN NaN ELSE IF a >= b THEN a ELSE b

\* url.searchParams.get("batch") || 50: null and "" are falsy
BatchOrDefault(req) == IF ~req.has \/ req.batch = <<>> THEN 50 ELSE Number(req.batch)

\* const batch = Math.max(1, Math.min(200, Number(... || 50)))
GETbatch(req) == MathMax(1, MathMin(200, BatchOrDefault(req)))

Requests == {[has |-> FALSE, batch |-> <<>>]} \cup {[has |-> TRUE, batch |-> v] : v \in QueryValues}

InitGET ==
    /\ InitTables({<<"09", "18">>}, {"200"}, {FALSE})
    /\ fn \in {[name |-> "GET", req |-> r, done |-> FALSE, batch |-> 0] : r \in Requests}

\* the request is served up to the call marketingTick({ batch })
GET ==
    /\ fn.name = "GET"
    /\ ~fn.done
    /\ fn' = [fn EXCEPT !.done = TRUE, !.batch = GETbatch(fn.req)]
    /\ UNCHANGED <<now, tz, config, steps, enrollments, sends, suppressions, mailer, tick, calls, hist>>

SpecGET == InitGET /\ [][GET]_vars

(***************************************************************************)
(* withinQuietHours(now, startHour, endHour) applied to hours given as     *)
(* numbers, at every hour of a day.                                        *)
(***************************************************************************)
Hours == 0..(HoursPerDay - 1)

\* one instant in each hour of a day
DayInstants == {k * MinutesPerHour + 15 : k \in Hours}

InitQuietHours ==
    /\ InitTables({<<"09", "18">>}, {"200"}, {FALSE})
    /\ fn \in {[name |-> "withinQuietHours", now |-> t, startHour |-> s, endHour |-> e,
                done |-> FALSE, out |-> FALSE] : t \in DayInstants, s \in Hours, e \in Hours}

\* Number(n) of a number is the number
QuietHoursCall ==
    /\ fn.name = "withinQuietHours"
    /\ ~fn.done
    /\ fn' = [fn EXCEPT !.done = TRUE,
                        !.out = withinHours(LocalHour(fn.now, tz), fn.startHour, fn.endHour)]
    /\ UNCHANGED <<now, tz, config, steps, enrollments, sends, suppressions, mailer, tick, calls, hist>>

SpecQuietHours == InitQuietHours /\ [][QuietHoursCall]_vars

(***************************************************************************)
(* fillTokens(template, vars) of lib/tokens.js.  A string is the sequence  *)
(* of its characters.                                                      *)
(***************************************************************************)
LowerChars == <<"a", "b", "c", "d", "e", "f", "g", "h", "i", "j", "k", "l", "m",
                "n", "o", "p", "q", "r", "s", "t", "u", "v", "w", "x", "y", "z">>
UpperChars == <<"A", "B", "C", "D", "E", "F", "G", "H", "I", "J", "K", "L", "M",
                "N", "O", "P", "Q", "R", "S", "T", "U", "V", "W", "X", "Y", "Z">>

toLowerChar(c) ==
    IF \E k \in DOMAIN UpperChars : UpperChars[k] = c
    THEN LowerChars[CHOOSE k \in DOMAIN UpperChars : UpperChars[k] = c]
    ELSE c

toUpperChar(c) ==
    IF \E k \in DOMAIN LowerChars : LowerChars[k] = c
    THEN UpperChars[CHOOSE k \in DOMAIN LowerChars : LowerChars[k] = c]
    ELSE c

toLowerCase(str) == IF str = <<>> THEN <<>> ELSE [k \in 1..Len(str) |-> toLowerChar(str[k])]
toUpperCase(str) == IF str = <<>> THEN <<>> ELSE [k \in 1..Len(str) |-> toUpperChar(str[k])]

RECURSIVE trimStart(_)
trimStart(str) == IF str # <<>> /\ Head(str) = " " THEN trimStart(Tail(str)) ELSE str

RECURSIVE trimEnd(_)
trimEnd(str) ==
    IF str # <<>> /\ str[Len(str)] = " " THEN trimEnd(SubSeq(str, 1, Len(str) - 1)) ELSE str

trim(str) == trimEnd(trimStart(str))

\* words = s.split(" "); each word becomes word[0].toUpperCase() +
\* word.slice(1).toLowerCase(); words.join(" ")
title(str) ==
    IF str = <<>> THEN <<>>
    ELSE [k \in 1..Len(str) |-> IF k = 1 \/ str[k - 1] = " " THEN toUpperChar(str[k])
                                                             ELSE toLowerChar(str[k])]

\* str.indexOf(pat, from) and str.slice(a, b), positions counted from 0
indexOf(str, pat, from) ==
    LET hits == {k \in from..(Len(str) - Len(pat)) : SubSeq(str, k + 1, k + Len(pat)) = pat}
    IN  IF hits = {} THEN -1 ELSE SetMin(hits)

slice(str, a, b) == SubSeq(str, a + 1, b)

\* the loop that splits raw at each "|" and trims the parts
RECURSIVE splitParts(_, _, _)
splitParts(raw, k, buf) ==
    IF k > Len(raw) THEN <<trim(buf)>>
    ELSE IF raw[k] = "|" THEN <<trim(buf)>> \o splitParts(raw, k + 1, <<>>)
    ELSE splitParts(raw, k + 1, Append(buf, raw[k]))

TransformWords == {<<"u", "p", "p", "e", "r">>, <<"l", "o", "w", "e", "r">>,
                   <<"t", "i", "t", "l", "e">>, <<"t", "r", "i", "m">>}

\* JavaScript values: undefined, null, a string, a number
Undefined == [t |-> "undefined", s |-> <<>>, n |-> 0]
Null == [t |-> "null", s |-> <<>>, n |-> 0]
StringVal(str) == [t |-> "string", s |-> str, n |-> 0]
NumberVal(n) == [t |-> "number", s |-> <<>>, n |-> n]

\* String(val), for numbers of one digit
String(val) ==
    CASE val.t = "string" -> val.s
      [] val.t = "number" -> <<ToString(val.n)>>
      [] val.t = "null" -> <<"n", "u", "l", "l">>
      [] val.t = "undefined" -> <<"u", "n", "d", "e", "f", "i", "n", "e", "d">>

\* the parts after the name that are transforms, lower-cased, in order
transformsOf(parts) ==
    LET ts == SelectSeq(parts, LAMBDA p : toLowerCase(p) \in TransformWords)
    IN  IF ts = <<>> THEN <<>> ELSE [k \in 1..Len(ts) |-> toLowerCase(ts[k])]

\* def: the first part after the name that is not a transform
defOf(parts) ==
    LET ds == SelectSeq(parts, LAMBDA p : toLowerCase(p) \notin TransformWords)
    IN  IF ds = <<>> THEN Undefined ELSE StringVal(ds[1])

\* faulty variant: every falsy value falls back to the default
resolveFalsy(val, def) ==
    IF val.t \in {"undefined", "null"} \/ val = StringVal(<<>>) \/ val = NumberVal(0)
    THEN (IF def # Undefined THEN def ELSE StringVal(<<>>))
    ELSE val

\* if (val === undefined || val === null || val === "") val = def !== undefined ? def : ""
resolve(val, def) ==
    IF val.t \in {"undefined", "null"} \/ val = StringVal(<<>>)
    THEN (IF def # Undefined THEN def ELSE StringVal(<<>>))
    ELSE val

\* hasOwnProperty.call(vars || {}, name) ? vars[name] : undefined
lookup(tokenVars, name) == IF name \in DOMAIN tokenVars THEN tokenVars[name] ELSE Undefined

applyTransform(t, str) ==
    CASE t = <<"t", "r", "i", "m">> -> trim(str)
      [] t = <<"u", "p", "p", "e", "r">> -> toUpperCase(str)
      [] t = <<"l", "o", "w", "e", "r">> -> toLowerCase(str)
      [] t = <<"t", "i", "t", "l", "e">> -> title(str)

RECURSIVE applyTransforms(_, _)
applyTransforms(ts, str) ==
    IF ts = <<>> THEN str ELSE applyTransforms(Tail(ts), applyTransform(Head(ts), str))

\* the text one placeholder with content raw is replaced by
placeholder(raw, tokenVars) ==
    LET parts == splitParts(raw, 1, <<>>)
        name == Head(parts)
        rest == Tail(parts)
    IN  applyTransforms(transformsOf(rest),
                        String(resolve(lookup(tokenVars, name), defOf(rest))))

\* the while loop from position i on, out being the text produced so far
RECURSIVE fillFrom(_, _, _, _)
fillFrom(template, tokenVars, i, out) ==
    IF ~(i < Len(template)) THEN out
    ELSE LET start == indexOf(template, <<"{", "{">>, i)
         IN  IF start = -1 THEN out \o slice(template, i, Len(template))
             ELSE LET end == indexOf(template, <<"}", "}">>, start + 2)
                      out1 == out \o slice(template, i, start)
                  IN  IF end = -1 THEN out1 \o slice(template, start, Len(template))
                      ELSE fillFrom(template, tokenVars, end + 2,
                                    out1 \o placeholder(trim(slice(template, start + 2, end)),
                                                        tokenVars))

fillTokens(template, tokenVars) ==
    IF template = <<>> THEN <<>> ELSE fillFrom(template, tokenVars, 0, <<>>)

\* names, defaults and variable mappings a call is given
TokenNames == {<<"x">>, <<" ", "x">>, <<>>}
TokenDefaults == {Undefined, StringVal(<<>>), StringVal(<<"h", "i">>),
                  StringVal(<<"h", "i", " ">>), StringVal(<<"U", "p", "p", "e", "r">>),
                  StringVal(<<"t", "r", "i", "m">>)}
TokenValues == {Undefined, Null, StringVal(<<>>), StringVal(<<"a", " ", "b">>), NumberVal(0)}
TokenVars ==
    {<<>>} \cup {(<<"x">> :> v) : v \in TokenValues}
           \cup {(<<" ", "x">> :> StringVal(<<"c">>))}
           \cup {(<<"x">> :> v) @@ (<<" ", "x">> :> StringVal(<<"c">>)) : v \in TokenValues}

\* the template {{name|d}}, or {{name}} when no default is given
templateOf(name, d) ==
    <<"{", "{">> \o name \o (IF d = Undefined THEN <<>> ELSE <<"|">> \o d.s) \o <<"}", "}">>

InitTokens ==
    /\ InitTables({<<"09", "18">>}, {"200"}, {FALSE})
    /\ fn \in {[name |-> "fillTokens", key |-> k, d |-> d, template |-> templateOf(k, d),
                vars |-> m, given |-> m, done |-> FALSE, out |-> <<>>] :
                    k \in TokenNames, d \in TokenDefaults, m \in TokenVars}

\* the function reads vars and writes nothing to it
fillTokensCall ==
    /\ fn.name = "fillTokens"
    /\ ~fn.done
    /\ fn' = [fn EXCEPT !.done = TRUE, !.out = fillTokens(fn.template, fn.vars)]
    /\ UNCHANGED <<now, tz, config, steps, enrollments, sends, suppressions, mailer, tick, calls, hist>>

SpecTokens == InitTokens /\ [][fillTokensCall]_vars

(***************************************************************************)
(* chooseVariant(step) and buildContent(step, variant, vars), as the tick  *)
(* composes a message: the variant is drawn, the content is rendered and   *)
(* the variant goes into the meta_json of the send-log row.                *)
(***************************************************************************)
\* a value is truthy: not undefined, null, "" or 0
Truthy(val) ==
    CASE val.t = "string" -> val.s # <<>>
      [] val.t = "number" -> val.n # 0
      [] OTHER -> FALSE

\* Math.floor(Math.random() * 100)
Draws == 0..99

\* faulty variant: the draw is compared with <=
chooseVariantInclusive(step, r) ==
    LET w == IF Truthy(step.weight_b) THEN step.weight_b.n ELSE 0
    IN  IF ~Truthy(step.subject_b) /\ ~Truthy(step.body_b) THEN "A"
        ELSE IF r <= w THEN "B" ELSE "A"

\* chooseVariant(step), r being the draw
chooseVariant(step, r) ==
    LET w == IF Truthy(step.weight_b) THEN step.weight_b.n ELSE 0
    IN  IF ~Truthy(step.subject_b) /\ ~Truthy(step.body_b) THEN "A"
        ELSE IF r < w THEN "B" ELSE "A"

\* x || ""
OrEmpty(val) == IF Truthy(val) THEN val.s ELSE <<>>

buildContent(step, variant, tokenVars) ==
    LET subj == IF variant = "B" /\ Truthy(step.subject_b) THEN step.subject_b ELSE step.subject
        body == IF variant = "B" /\ Truthy(step.body_b) THEN step.body_b ELSE step.body
    IN  [subject |-> fillTokens(OrEmpty(subj), tokenVars),
         text |-> fillTokens(OrEmpty(body), tokenVars)]

\* step rows: the alternate subject and body present or null, the weight null
\* or a number
VariantSteps ==
    {[subject |-> StringVal(<<"s">>), body |-> StringVal(<<"b">>),
      subject_b |-> sb, body_b |-> bb, weight_b |-> w] :
        sb \in {Null, StringVal(<<"S">>)}, bb \in {Null, StringVal(<<"B">>)},
        w \in {Null, NumberVal(0), NumberVal(1), NumberVal(50), NumberVal(100)}}

InitVariant ==
    /\ InitTables({<<"09", "18">>}, {"200"}, {FALSE})
    /\ fn \in {[name |-> "chooseVariant", step |-> st, r |-> r, done |-> FALSE, variant |-> "",
                content |-> [subject |-> <<>>, text |-> <<>>], meta |-> [variant |-> ""]] :
                    st \in VariantSteps, r \in Draws}

\* lines 454-455 and 475 of the tick: variant, content, JSON.stringify({ variant })
composeCall ==
    /\ fn.name = "chooseVariant"
    /\ ~fn.done
    /\ LET variant == chooseVariant(fn.step, fn.r)
       IN  fn' = [fn EXCEPT !.done = TRUE,
                            !.variant = variant,
                            !.content = buildContent(fn.step, variant, <<>>),
                            !.meta = [variant |-> variant]]
    /\ UNCHANGED <<now, tz, config, steps, enrollments, sends, suppressions, mailer, tick, calls, hist>>

SpecVariant == InitVariant /\ [][composeCall]_vars


(***************************************************************************)
(* Properties.                                                             *)
(***************************************************************************)
\* send-log entries for one (campaign_id, contact_id, step_order)
LogEntries(k) ==
    {i \in DOMAIN sends : /\ sends[i].campaign_id = k[1]
                          /\ sends[i].contact_id = k[2]
                          /\ sends[i].step_order = k[3]}

KeyOf(e) == <<e.campaign_id, e.contact_id, e.next_step_order>>

\* C1: with overlapping ticks no enrollment step is sent twice: the send log
\* never holds two entries for one (campaign, contact, step_order), and no two
\* ticks are ever waiting on transport calls for the same step.
C1_NoDoubleSendOverlap ==
    /\ \A k \in CallKeys : Cardinality(LogEntries(k)) <= 1
    /\ \A p, q \in Ticks :
          (p # q /\ tick[p].pc = "await" /\ tick[q].pc = "await")
              => KeyOf(Cur(p)) # KeyOf(Cur(q))

\* C2: with ticks that do not overlap, the send log holds at most one entry
\* for each (campaign_id, contact_id, step_order).
C2_AtMostOneLogEntry ==
    \A k \in CallKeys : Cardinality(LogEntries(k)) <= 1

\* two ticks have run and one contact's enrollment was sent two steps
C2_Witness ==
    /\ hist.ticks = 2
    /\ \E i, j \in DOMAIN sends :
          /\ sends[i].contact_id = sends[j].contact_id
          /\ sends[i].campaign_id = sends[j].campaign_id
          /\ sends[i].step_order < sends[j].step_order
          /\ sends[i].sent_at = sends[j].sent_at

\* C3: every take(1) returns true exactly when fewer than rate_per_hour takes
\* succeeded earlier in the UTC hour in which it is made, so that the first
\* take after the hour has changed is counted from zero, also in a tick that
\* is running when the hour changes.
C3_TakeCountsPerUtcHour == ~hist.takeWrong

\* C4: when the ticks that took from the bucket ran within one UTC hour, the
\* send-log entries appended in that hour number at most rate_per_hour and
\* the persisted rate_count equals the number of successful takes of those
\* ticks (no update of the counter is lost).
C4_RateCapOverlap ==
    (~hist.spanned /\ hist.takeHour = config.rate_bucket)
        => /\ Cardinality({i \in DOMAIN sends :
                    UtcHourBucket(sends[i].sent_at) = config.rate_bucket})
                 <= Num(config.rate_per_hour)
           /\ config.rate_count = hist.takeOk

\* C5: when take(1) returns false the tick stops at once: the step that finds
\* the budget used up ends the tick and changes no enrollment, appends nothing
\* to the send log and calls no transport, so the row it stopped at and every
\* row after it in the batch are as they were.
C5_RateBreakStopsTick ==
    [][\A p \in Ticks :
          (IsRateCase(p) /\ tick[p].curCount + 1 > tick[p].allowed)
              => /\ tick'[p].pc = "done"
                 /\ tick'[p].i = tick[p].i
                 /\ enrollments' = enrollments
                 /\ sends' = sends
                 /\ calls' = calls
                 /\ config' = config]_vars

\* a tick stopped by the rate limiter with rows of its batch left, all untouched
C5_Witness ==
    \E p \in Ticks :
        /\ tick[p].pc = "done"
        /\ tick[p].i < Len(tick[p].due)
        /\ tick[p].processed = tick[p].i
        /\ \A j \in tick[p].i..Len(tick[p].due) :
              Snapshot(enrollments, tick[p].due[j].id) = tick[p].due[j]

\* the local calendar day and the minute of the local day of an instant
LocalDay(t) == (t + tz) \div MinutesPerDay
LocalMinuteOfDay(t) == (t + tz) % MinutesPerDay

\* C6 as stated: a tick outside the quiet-hours window defers every due,
\* non-suppressed enrollment whose current step exists: when the tick ends,
\* no such enrollment is still due.
C6_EveryDueDeferred ==
    [][\A p \in Ticks :
          (tick[p].pc # "done" /\ tick'[p].pc = "done" /\ ~tick'[p].isOkWindow)
              => \A i \in DOMAIN enrollments' :
                    ~( /\ enrollments'[i].status = "active"
                       /\ enrollments'[i].next_run_at <= tick'[p].now
                       /\ ~suppressed(enrollments'[i].contact_id)
                       /\ stepQuery(enrollments'[i].campaign_id,
                                    enrollments'[i].next_step_order) # {} )]_vars

\* C6 amended: a tick outside the quiet-hours window defers every due,
\* non-suppressed enrollment of its selected batch whose current step exists:
\* the step that handles it calls no transport, appends nothing to the send
\* log, leaves the rate counter, every other enrollment and the enrollment's
\* status, next_step_order and last_sent_at alone, and sets its next_run_at to
\* quiet_start o'clock local time of the next calendar day; and the tick ends
\* with every such row of its batch deferred.
C6_QuietStep ==
    \A p \in Ticks :
        IsQuietCase(p) =>
            LET id == Cur(p).id
            IN  /\ calls' = calls
                /\ sends' = sends
                /\ config' = config
                /\ \A i \in DOMAIN enrollments : i # id => enrollments'[i] = enrollments[i]
                /\ enrollments'[id].status = "active"
                /\ enrollments'[id].next_step_order = enrollments[id].next_step_order
                /\ enrollments'[id].last_sent_at = enrollments[id].last_sent_at
                /\ LocalDay(enrollments'[id].next_run_at) = LocalDay(now) + 1
                /\ LocalMinuteOfDay(enrollments'[id].next_run_at) =
                       Num(config.quiet_start) * MinutesPerHour

C6_BatchDeferred ==
    \A p \in Ticks :
        (tick[p].pc # "done" /\ tick'[p].pc = "done" /\ ~tick'[p].isOkWindow)
            => \A j \in DOMAIN tick'[p].due :
                  LET e == tick'[p].due[j]
                  IN  ( /\ ~suppressed(e.contact_id)
                        /\ stepQuery(e.campaign_id, e.next_step_order) # {} )
                        => /\ enrollments'[e.id].status = "active"
                           /\ enrollments'[e.id].next_step_order = e.next_step_order
                           /\ LocalDay(enrollments'[e.id].next_run_at) =
                                  LocalDay(tick'[p].now) + 1

C6_QuietDefersBatch == [][C6_QuietStep /\ C6_BatchDeferred]_vars

\* a tick outside the window has ended with a deferred row in its batch
C6_Witness ==
    \E p \in Ticks :
        /\ tick[p].pc = "done"
        /\ ~tick[p].isOkWindow
        /\ tick[p].skippedQuiet > 0
        /\ \E j \in DOMAIN tick[p].due :
              LET e == tick[p].due[j]
              IN  /\ enrollments[e.id].next_run_at > tick[p].now
                  /\ enrollments[e.id].next_step_order = e.next_step_order
                  /\ enrollments[e.id].status = "active"

\* C7: the step that handles a due enrollment whose contact has a suppression
\* row appends no send-log entry, calls no transport and takes nothing from
\* the rate limiter; it moves the enrollment to next_step_order + 1, due that
\* step's delay_minutes after the instant of handling, when that step exists,
\* and marks the enrollment completed when it does not.
C7_SuppressedAdvances ==
    [][\A p \in Ticks :
          (tick[p].pc = "loop" /\ Cur(p).contact_id \in suppressions)
              => LET id == Cur(p).id
                     old == enrollments[id]
                     new == enrollments'[id]
                     nxt == stepQuery(old.campaign_id, old.next_step_order + 1)
                 IN  /\ sends' = sends
                     /\ calls' = calls
                     /\ config' = config
                     /\ tick'[p].curCount = tick[p].curCount
                     /\ hist'.takeOk = hist.takeOk
                     /\ IF nxt # {}
                        THEN /\ new.status = "active"
                             /\ new.next_step_order = old.next_step_order + 1
                             /\ \E st \in nxt : new.next_run_at = now + st.delay_minutes
                        ELSE new.status = "completed"]_vars

\* a suppressed contact's enrollment was moved to a later step that waits for
\* its delay, with no send-log entry for the step it skipped
C7_Witness ==
    \E p \in Ticks, i \in DOMAIN enrollments :
        /\ tick[p].suppressedCount > 0
        /\ enrollments[i].contact_id \in suppressions
        /\ enrollments[i].status = "active"
        /\ enrollments[i].next_step_order = 3
        /\ enrollments[i].next_run_at > now
        /\ LogEntries(<<enrollments[i].campaign_id, enrollments[i].contact_id, 2>>) = {}

\* the transport's promise was settled for tick p in this step, with a result
Answered(p) ==
    /\ tick[p].pc = "await"
    /\ tick'[p].pc # "await"
    /\ tick'[p].result # Thrown

\* C9: when the transport answers the send of step k, the tick appends
\* exactly one send-log entry, with step_order = k, and then the enrollment
\* is active at step k + 1, due delay_minutes of step k + 1 after that
\* instant, when a step with step_order k + 1 exists, and completed otherwise.
C9_SendLogsAndAdvances ==
    [][\A p \in Ticks :
          Answered(p)
              => LET id == Cur(p).id
                     old == enrollments[id]
                     new == enrollments'[id]
                     k == old.next_step_order
                     nxt == stepQuery(old.campaign_id, k + 1)
                 IN  /\ Len(sends') = Len(sends) + 1
                     /\ SubSeq(sends', 1, Len(sends)) = sends
                     /\ sends'[Len(sends')].step_order = k
                     /\ sends'[Len(sends')].campaign_id = old.campaign_id
                     /\ sends'[Len(sends')].contact_id = old.contact_id
                     /\ IF nxt # {}
                        THEN /\ new.status = "active"
                             /\ new.next_step_order = k + 1
                             /\ \E st \in nxt : new.next_run_at = now + st.delay_minutes
                        ELSE new.status = "completed"]_vars

\* the 2-step campaign with delays 0 and 60: ticks at T0 and T0 + 60 min have
\* sent step 1 and step 2 and the enrollment is completed
C9_Witness ==
    /\ {st.delay_minutes : st \in stepQuery("k1", 1)} = {0}
    /\ {st.delay_minutes : st \in stepQuery("k1", 2)} = {60}
    /\ stepQuery("k1", 3) = {}
    /\ \E i \in DOMAIN enrollments, a, b \in DOMAIN sends :
          /\ enrollments[i].status = "completed"
          /\ enrollments[i].next_step_order = 2
          /\ sends[a].contact_id = enrollments[i].contact_id
          /\ sends[b].contact_id = enrollments[i].contact_id
          /\ sends[a].step_order = 1
          /\ sends[b].step_order = 2
          /\ sends[b].sent_at = sends[a].sent_at + 60
          /\ enrollments[i].next_run_at = sends[a].sent_at + 60

\* the transport failed: its promise rejected, or resolved to a result with ok false
TransportFailed(p) ==
    /\ tick[p].pc = "await"
    /\ tick'[p].pc # "await"
    /\ mailer
    /\ (tick'[p].result = Thrown \/ ~tick'[p].result.ok)

\* C10: when the transport fails for an enrollment's step, the tick appends a
\* send-log entry with status failed for that step and advances the
\* enrollment to the next step or to completed.
C10_FailureLoggedAndAdvanced ==
    [][\A p \in Ticks :
          TransportFailed(p)
              => LET id == Cur(p).id
                     old == enrollments[id]
                     new == enrollments'[id]
                 IN  /\ Len(sends') = Len(sends) + 1
                     /\ sends'[Len(sends')].step_order = old.next_step_order
                     /\ sends'[Len(sends')].contact_id = old.contact_id
                     /\ sends'[Len(sends')].status = "failed"
                     /\ \/ new.status = "completed"
                        \/ new.next_step_order = old.next_step_order + 1]_vars

EnrollmentIds == 1..Cardinality(Campaigns \X Contacts)

\* C8: under a cron that polls the tick route at every instant of an
\* advancing clock, an active enrollment of a suppressed contact eventually
\* reaches status completed, whatever the quiet-hours configuration.
C8_SuppressedCompletes ==
    \A i \in EnrollmentIds :
        [](( /\ i \in DOMAIN enrollments
             /\ enrollments[i].status = "active"
             /\ enrollments[i].contact_id \in suppressions )
            => <>(i \in DOMAIN enrollments /\ enrollments[i].status = "completed"))

\* C11: a transport failure on one enrollment (an exception or a failure
\* result) does not abort the tick: the tick goes on to the next row of its
\* batch, or past the loop to return its counts when that row was the last.
C11_FailureDoesNotAbortTick ==
    [][\A p \in Ticks :
          TransportFailed(p)
              => /\ tick'[p].pc = AfterRow(tick[p])
                 /\ tick'[p].i = tick[p].i + 1
                 /\ tick'[p].processed = tick[p].processed]_vars

\* send-log entries of one enrollment's (campaign, contact), in a given log
LogOf(log, e) ==
    {i \in DOMAIN log : /\ log[i].campaign_id = e.campaign_id
                        /\ log[i].contact_id = e.contact_id}

\* C12: completed is terminal: no step of a tick, no enrollContacts call (also
\* one that names the same contact for the same campaign) and no other handler
\* changes the status, next_step_order or next_run_at of an enrollment that is
\* completed, or appends a send-log entry for its (campaign, contact).
C12_CompletedIsTerminal ==
    [][\A i \in DOMAIN enrollments :
          enrollments[i].status = "completed"
              => /\ i \in DOMAIN enrollments'
                 /\ enrollments'[i].campaign_id = enrollments[i].campaign_id
                 /\ enrollments'[i].contact_id = enrollments[i].contact_id
                 /\ enrollments'[i].status = "completed"
                 /\ enrollments'[i].next_step_order = enrollments[i].next_step_order
                 /\ enrollments'[i].next_run_at = enrollments[i].next_run_at
                 /\ LogOf(sends', enrollments[i]) = LogOf(sends, enrollments[i])]_vars

\* enrollContacts was called again for the contact of a completed enrollment,
\* and the latest tick, which completed nothing itself, ran when that
\* enrollment's next_run_at had passed, left it out of its batch and handled
\* another row
C12_Witness ==
    \E i \in DOMAIN enrollments :
        /\ enrollments[i].status = "completed"
        /\ hist.reenrolled
        /\ hist.ticks = 2
        /\ tick["t1"].pc = "done"
        /\ tick["t1"].completed = 0
        /\ tick["t1"].processed > 0
        /\ enrollments[i].next_run_at <= tick["t1"].now
        /\ \A j \in DOMAIN tick["t1"].due : tick["t1"].due[j].id # i

\* the ids of the rows a tick holds in its batch
BatchIds(t) == {t.due[j].id : j \in DOMAIN t.due}

\* the step changes enrollment i or appends a send-log entry for it
Touched(i) ==
    \/ enrollments'[i] # enrollments[i]
    \/ LogOf(sends', enrollments[i]) # LogOf(sends, enrollments[i])

\* C13: a tick changes, and sends for, only enrollments that were active with
\* next_run_at <= now when it selected its batch: every row of a batch is
\* active and due at the selection, and a step changes an enrollment or
\* appends a send-log entry for it only when it is the row a running tick is
\* handling from its batch; every other enrollment is left as it was.
C13_OnlySelectedTouched ==
    [][/\ \A p \in Ticks :
             (tick[p].pc \notin {"loop", "await"} /\ tick'[p].pc = "loop")
                 => \A i \in BatchIds(tick'[p]) :
                       /\ enrollments[i].status = "active"
                       /\ enrollments[i].next_run_at <= now
                       /\ tick'[p].now = now
       /\ \A i \in DOMAIN enrollments :
             Touched(i)
                 => \E p \in Ticks :
                       /\ tick[p].pc \in {"loop", "await"}
                       /\ Cur(p).id = i
                       /\ i \in BatchIds(tick[p])]_vars

\* a tick has ended after handling a row, and an enrollment that existed when
\* the batch was selected but was not yet due then is as it was created
C13_Witness ==
    \E p \in Ticks, i \in DOMAIN enrollments :
        /\ tick[p].pc = "done"
        /\ tick[p].processed > 0
        /\ i \notin BatchIds(tick[p])
        /\ \E k \in BatchIds(tick[p]) : k > i
        /\ enrollments[i].status = "active"
        /\ enrollments[i].next_run_at > tick[p].now
        /\ enrollments[i].next_step_order = 1
        /\ enrollments[i].last_sent_at = NULL
        /\ LogOf(sends, enrollments[i]) = {}

\* the step is the selection of tick p's batch
Selects(p) == tick[p].pc \notin {"loop", "await"} /\ tick'[p] # tick[p]

\* C14: the batch a tick selects is in ascending next_run_at order, it is not
\* empty when some active enrollment is due, no due active enrollment left out
\* of it has a strictly earlier next_run_at than a row in it, and the tick
\* handles the rows of the batch one after the other in that order.
C14_EarliestFirst ==
    [][\A p \in Ticks :
          /\ Selects(p)
                => LET due == tick'[p].due
                   IN  /\ \A j, k \in DOMAIN due :
                             j < k => due[j].next_run_at <= due[k].next_run_at
                       /\ \A j \in DOMAIN due :
                             /\ due[j].id \in DueIds(enrollments, now)
                             /\ due[j].next_run_at = enrollments[due[j].id].next_run_at
                       /\ DueIds(enrollments, now) # {} => due # <<>>
                       /\ \A i \in DueIds(enrollments, now) \ BatchIds(tick'[p]) :
                             \A j \in DOMAIN due :
                                due[j].next_run_at <= enrollments[i].next_run_at
                       /\ tick'[p].i = 1
          /\ tick[p].pc \in {"loop", "await"}
                => /\ tick'[p].due = tick[p].due
                   /\ tick'[p].i \in {tick[p].i, tick[p].i + 1}
                   /\ tick'[p].pc = "loop" => tick'[p].i \in DOMAIN tick[p].due]_vars

\* a tick has just selected a batch of one row while a due active enrollment
\* with a strictly later next_run_at is left out of it
C14_Witness ==
    \E p \in Ticks :
        /\ tick[p].pc = "loop"
        /\ tick[p].i = 1
        /\ Len(tick[p].due) = 1
        /\ \E i \in DueIds(enrollments, tick[p].now) \ BatchIds(tick[p]) :
              enrollments[i].next_run_at > tick[p].due[1].next_run_at

\* the delay of the step with step_order 1 of a campaign (0 without such a step)
C15_DelayOfStepOne(campaignId) ==
    LET S == stepQuery(campaignId, 1)
    IN  IF S = {} THEN 0 ELSE (CHOOSE s \in S : TRUE).delay_minutes

\* C15: every enrollment row enrollContacts creates is active, has
\* next_step_order = 1, and has next_run_at = start time + delay_minutes of
\* the step with step_order 1 of its campaign, the start time being the given
\* startAtISO or the time of the call.
C15_StartsAfterFirstStepDelay ==
    [][\A i \in DOMAIN enrollments' \ DOMAIN enrollments :
          /\ enrollments'[i].status = "active"
          /\ enrollments'[i].next_step_order = 1
          /\ \E startBase \in {now} \cup (StartAts \ {NULL}) :
                enrollments'[i].next_run_at =
                    AddMinutes(startBase, C15_DelayOfStepOne(enrollments'[i].campaign_id))]_vars

\* C16: there is at most one enrollment row for each (campaign_id, contact_id)
\* pair, whatever enrollContacts calls and ticks have happened.
C16_OneRowPerPair ==
    \A i, j \in DOMAIN enrollments :
        (/\ enrollments[i].campaign_id = enrollments[j].campaign_id
         /\ enrollments[i].contact_id = enrollments[j].contact_id) => i = j

\* two enrollContacts calls, both naming c1 and one naming it twice, and a
\* tick that handled a row have happened
C16_Witness ==
    /\ hist.enrolls = 2
    /\ Len(enrollments) = 2
    /\ \E p \in Ticks : tick[p].pc = "done" /\ tick[p].processed > 0

\* C17: the batch size the tick route hands to marketingTick is a number in
\* 1..200: 50 when the batch parameter is absent, and otherwise the parameter
\* clamped into 1..200, non-numeric values included.
C17_BatchInRange ==
    (fn.name = "GET" /\ fn.done)
        => /\ fn.batch \in 1..200
           /\ ~fn.req.has => fn.batch = 50
           /\ (fn.req.has /\ IsDigits(fn.req.batch))
                 => fn.batch = Min2(200, IF Number(fn.req.batch) < 1 THEN 1
                                         ELSE Number(fn.req.batch))

\* C18: with a stored configuration that is missing or invalid, a tick finds
\* the window open when quiet_start or quiet_end is not a number, and every
\* take that succeeds is within a finite cap: the allowed rate is a number
\* and the count of the hour stays at or below it.
C18_SafeDefaults ==
    [][\A p \in Ticks :
          /\ (Selects(p) /\ (Num(config'.quiet_start) = NaN \/ Num(config'.quiet_end) = NaN))
                => tick'[p].isOkWindow
          /\ (tick[p].pc = "loop" /\ tick'[p].pc = "await")
                => /\ tick[p].allowed # NaN
                   /\ tick'[p].curCount <= tick[p].allowed]_vars

\* C20: for every hour h of the day and every start and end in 0..23,
\* withinQuietHours returns start <= h < end when start <= end, and
\* (h >= start or h < end) when start > end.
C20_WindowByHour ==
    (fn.name = "withinQuietHours" /\ fn.done)
        => LET h == LocalHour(fn.now, tz)
           IN  /\ fn.startHour <= fn.endHour
                     => (fn.out <=> (fn.startHour <= h /\ h < fn.endHour))
               /\ fn.startHour > fn.endHour
                     => (fn.out <=> (h >= fn.startHour \/ h < fn.endHour))

\* the function has answered true for an hour after midnight inside a window
\* that wraps around midnight
C20_Witness ==
    /\ fn.name = "withinQuietHours"
    /\ fn.done
    /\ fn.startHour > fn.endHour
    /\ LocalHour(fn.now, tz) < fn.endHour
    /\ fn.out

\* the value of the key in vars is one the function renders
C19_HasValue(skipped) ==
    /\ fn.key \in DOMAIN fn.given
    /\ fn.given[fn.key].t \notin skipped
    /\ fn.given[fn.key] # StringVal(<<>>)

\* the result the claim gives: vars[name], or else d, or else the empty string
C19_Expected(skipped) ==
    IF C19_HasValue(skipped) THEN String(fn.given[fn.key])
    ELSE IF fn.d # Undefined THEN fn.d.s
    ELSE <<>>

\* C19 as stated: for the template {{name|d}} with d not one of trim, upper,
\* lower, title, fillTokens returns vars[name] when name is an own key of
\* vars whose value is not null and not the empty string, and d otherwise
\* (the empty string without d); vars is not modified.
C19_DefaultFallback ==
    (fn.name = "fillTokens" /\ fn.done /\ fn.d.s \notin TransformWords)
        => /\ fn.out = C19_Expected({"null"})
           /\ fn.vars = fn.given

\* C19 as amended: the same for a name and a d that are free of leading and
\* trailing white space, d not being one of the four words in any letter
\* case, and the value being not undefined either.
C19_DefaultFallbackTrimmed ==
    (/\ fn.name = "fillTokens"
     /\ fn.done
     /\ toLowerCase(fn.d.s) \notin TransformWords
     /\ trim(fn.key) = fn.key
     /\ trim(fn.d.s) = fn.d.s)
        => /\ fn.out = C19_Expected({"null", "undefined"})
           /\ fn.vars = fn.given

\* the function has returned the value 0 of the key as "0" although a
\* default was given
C19_Witness ==
    /\ fn.name = "fillTokens"
    /\ fn.done
    /\ fn.key = <<"x">>
    /\ fn.d = StringVal(<<"h", "i">>)
    /\ fn.key \in DOMAIN fn.given
    /\ fn.given[fn.key] = NumberVal(0)
    /\ fn.out = <<"0">>

\* C21: the next_run_at a quiet-hours deferral writes lies in an hour at which
\* the configured window is open, whatever quiet_start and quiet_end are, so
\* that a tick run at that time sends the step instead of deferring it again.
C21_DeferredIntoOpenWindow ==
    [][\A p \in Ticks :
          (tick[p].pc = "loop" /\ tick'[p].skippedQuiet = tick[p].skippedQuiet + 1)
              => withinQuietHours(LocalHour(enrollments'[Cur(p).id].next_run_at, tz),
                                  config.quiet_start, config.quiet_end)]_vars

C23_NoSendPastGap ==
    \A i \in DOMAIN sends :
        \A n \in 1..sends[i].step_order : stepQuery(sends[i].campaign_id, n) # {}

\* C23: the step after order k is looked up as exactly k + 1.  A tick that
\* meets a non-suppressed row whose campaign has no step with step_order =
\* next_step_order completes it, appends nothing to the send log and leaves
\* the rate count alone, whether the window is open or not; a row whose step
\* was sent completes when the campaign has no step of the next order, and no
\* step behind a gap in the orders is ever sent.
C23_GapCompletes ==
    [][/\ \A p \in Ticks :
             /\ (IsMissingCase(p) /\ tick'[p] # tick[p])
                   => /\ enrollments'[Cur(p).id].status = "completed"
                      /\ sends' = sends
                      /\ config'.rate_count = config.rate_count
                      /\ tick'[p].curCount = tick[p].curCount
                      /\ tick'[p].completed = tick[p].completed + 1
             /\ (tick[p].pc = "await" /\ Len(sends') = Len(sends) + 1 /\ ~Advances(Cur(p)))
                   => enrollments'[Cur(p).id].status = "completed"
       /\ C23_NoSendPastGap']_vars

\* in a campaign with the step orders 1 and 3 an enrollment has completed
\* with step 1 as its only logged send, and another enrollment, of a contact
\* that is not suppressed, was completed without any send
C23_Witness ==
    /\ stepQuery("k1", 2) = {}
    /\ stepQuery("k1", 3) # {}
    /\ \E i, j \in DOMAIN enrollments :
          /\ enrollments[i].status = "completed"
          /\ Cardinality(LogOf(sends, enrollments[i])) = 1
          /\ \A k \in LogOf(sends, enrollments[i]) : sends[k].step_order = 1
          /\ enrollments[j].status = "completed"
          /\ LogOf(sends, enrollments[j]) = {}
          /\ ~suppressed(enrollments[j].contact_id)

\* C24: the variant is B exactly when the step has an alternate subject or
\* body and the draw r in 0..99 is below weight_b (a null weight counting as
\* 0), and A otherwise; the variant recorded in the send-log metadata is the
\* variant drawn, and the rendered subject and body are those of that
\* variant: the alternate ones, where the step has them, for B and the
\* primary ones for A.
C24_VariantByDraw ==
    (fn.name = "chooseVariant" /\ fn.done)
        => LET st == fn.step
               hasAlt == st.subject_b # Null \/ st.body_b # Null
               w == IF st.weight_b = Null THEN 0 ELSE st.weight_b.n
           IN  /\ fn.variant \in {"A", "B"}
               /\ fn.variant = "B" <=> (hasAlt /\ fn.r < w)
               /\ ~hasAlt => fn.variant = "A"
               /\ w = 0 => fn.variant = "A"
               /\ (hasAlt /\ w = 100) => fn.variant = "B"
               /\ fn.meta.variant = fn.variant
               /\ fn.content.subject =
                     (IF fn.meta.variant = "B" /\ st.subject_b # Null THEN st.subject_b.s
                      ELSE st.subject.s)
               /\ fn.content.text =
                     (IF fn.meta.variant = "B" /\ st.body_b # Null THEN st.body_b.s
                      ELSE st.body.s)

\* a step with an alternate subject only and weight 50 got B on the draw 49:
\* the alternate subject and the primary body were rendered
C24_Witness ==
    /\ fn.name = "chooseVariant"
    /\ fn.done
    /\ fn.step.subject_b # Null
    /\ fn.step.body_b = Null
    /\ fn.step.weight_b = NumberVal(50)
    /\ fn.r = 49
    /\ fn.meta.variant = "B"
    /\ fn.content = [subject |-> <<"S">>, text |-> <<"b">>]

\* C25: the send-log entry a tick appends carries the status the transport
\* returned, or sent when the transport reports ok without a status, or
\* queued otherwise; the tick's sent count grows by one exactly with an entry
\* of status sent and its queued count exactly with an entry of status
\* queued, so that the counts are the numbers of such entries it appended.
C25_CountsMatchLog ==
    [][\A p \in Ticks :
          (tick[p].pc = "await" /\ Len(sends') = Len(sends) + 1)
              => LET row == sends'[Len(sends')]
                     result == tick'[p].result
                 IN  /\ row.status = (IF result.status # NoStatus THEN result.status
                                      ELSE IF result.ok THEN "sent" ELSE "queued")
                     /\ tick'[p].sent = tick[p].sent + (IF row.status = "sent" THEN 1 ELSE 0)
                     /\ tick'[p].queued = tick[p].queued
                                             + (IF row.status = "queued" THEN 1 ELSE 0)]_vars

\* C26: a call of enrollContacts leaves every existing enrollment as it is,
\* whatever its status: status, next_step_order, next_run_at, last_sent_at
\* and data_json are unchanged.
C26_EnrollKeepsProgress ==
    [][hist'.enrolls # hist.enrolls
          => \A i \in DOMAIN enrollments :
                /\ i \in DOMAIN enrollments'
                /\ enrollments'[i].status = enrollments[i].status
                /\ enrollments'[i].next_step_order = enrollments[i].next_step_order
                /\ enrollments'[i].next_run_at = enrollments[i].next_run_at
                /\ enrollments'[i].last_sent_at = enrollments[i].last_sent_at
                /\ enrollments'[i].data_json = enrollments[i].data_json]_vars

\* a second call has named a contact whose enrollment was completed, and an
\* enrollment that was sent a step is still as the tick left it
C26_Witness ==
    /\ hist.enrolls = 2
    /\ hist.reenrolled
    /\ \E i \in DOMAIN enrollments :
          /\ enrollments[i].status = "completed"
          /\ enrollments[i].last_sent_at # NULL
          /\ enrollments[i].data_json = 1

\* C27: the processed count a tick returns is the number of enrollments it
\* acted on: processed = suppressed + skipped_quiet + sent + queued + the
\* number of rows completed because their step is missing, also when the
\* rate limiter stopped the run.
C27_ProcessedIsActedOn ==
    \A p \in Ticks :
        tick[p].pc = "done"
            => tick[p].processed = tick[p].suppressedCount + tick[p].skippedQuiet
                                      + tick[p].sent + tick[p].queued + tick[p].missing

\* C28: between ticks the persisted rate_count equals the number of send-log
\* entries appended by the ticks that started in the persisted hour bucket:
\* a token is consumed exactly when an entry is recorded.
C28_CountEqualsEntries ==
    (\A p \in Ticks : tick[p].pc \notin {"loop", "await"})
        => config.rate_count =
              Cardinality({i \in DOMAIN sends :
                              UtcHourBucket(sends[i].sent_at) = config.rate_bucket})

\* C29: between ticks an enrollment's last_sent_at is null exactly when the
\* send log has no entry for its (campaign, contact), and otherwise it is the
\* sent_at of the latest such entry.
C29_LastSentMatchesLog ==
    (\A p \in Ticks : tick[p].pc \notin {"loop", "await"})
        => \A e \in DOMAIN enrollments :
              LET log == LogOf(sends, enrollments[e])
              IN  IF log = {}
                  THEN enrollments[e].last_sent_at = NULL
                  ELSE enrollments[e].last_sent_at = sends[CHOOSE i \in log : \A j \in log : j <= i].sent_at

\* C30: once the webhook has handled a bounce or a complaint for a send-log
\* entry of a contact, the contact has a suppression row, the row stays, and
\* no tick that starts afterwards appends a send-log entry for the contact.
C30_SuppressedNeverSentAgain ==
    /\ [](\A i \in DOMAIN sends :
             sends[i].status \in {"bounced", "complained"}
                => sends[i].contact_id \in suppressions)
    /\ [][suppressions \subseteq suppressions']_vars
    /\ [][\A p \in Ticks :
             (tick[p].pc = "await" /\ tick'[p].pc # "await" /\ Len(sends') > Len(sends))
                => sends'[Len(sends')].contact_id \notin tick[p].supp]_vars

\* a tick that started after a bounce has met the contact and skipped it
C30_Witness ==
    \E p \in Ticks :
        /\ tick[p].suppressedCount > 0
        /\ \E i \in DOMAIN sends :
              /\ sends[i].status \in {"bounced", "complained"}
              /\ sends[i].contact_id \in tick[p].supp

====
